---- MODULE Spec2Model ----
(***************************************************************************)
(* Model of the batch mail-merge dispatcher of src/main.py: send_batch,    *)
(* the delivery ledger (read_sent_index / append_sent_record), the         *)
(* composer (build_message) and the report (generate_dashboard).           *)
(*                                                                         *)
(* Strings are sequences of one-character strings, so that str.strip(),    *)
(* str.replace() and str.split() are modelled by what they do.             *)
(***************************************************************************)
EXTENDS Integers, Sequences, FiniteSets, TLC

\* ------------------------------------------------------------------ bounds
MaxRows == 2
MaxLedger == 2
MaxLimit == 1
MaxRuns == 2
MaxField == 2
MaxPattern == 4
MaxEvents == 2

\* ------------------------------------------------------- string primitives
\* Characters str.strip() removes (the whitespace of the model's alphabet).
Whitespace == {" ", "\n", "\r"}

\* Characters an email header value may not contain: assigning such a value
\* to msg[...] raises ValueError.
LineBreaks == {"\n", "\r"}

RECURSIVE LStrip(_)
LStrip(s) == IF s # <<>> /\ Head(s) \in Whitespace THEN LStrip(Tail(s)) ELSE s

RECURSIVE RStrip(_)
RStrip(s) ==
    IF s # <<>> /\ s[Len(s)] \in Whitespace
    THEN RStrip(SubSeq(s, 1, Len(s) - 1))
    ELSE s

\* A strip that forgets the trailing side.
StripLeftOnly(s) == LStrip(s)

\* str.strip()
Strip(s) == RStrip(LStrip(s))

\* c in s
Contains(s, c) == \E n \in 1..Len(s) : s[n] = c

\* s.replace(a, b) for single characters
Replace(s, a, b) == [n \in 1..Len(s) |-> IF s[n] = a THEN b ELSE s[n]]

\* s.split(sep) for a single-character separator: always at least one part
RECURSIVE Split(_, _)
Split(s, sep) ==
    IF ~Contains(s, sep)
    THEN <<s>>
    ELSE LET n == CHOOSE m \in 1..Len(s) :
                    s[m] = sep /\ \A q \in 1..(m - 1) : s[q] # sep
         IN  <<SubSeq(s, 1, n - 1)>> \o Split(SubSeq(s, n + 1, Len(s)), sep)

\* [f(x) for x in xs if p(x)] with f = strip and p = non-empty after strip
RECURSIVE StripNonEmpty(_)
StripNonEmpty(xs) ==
    IF xs = <<>> THEN <<>>
    ELSE IF Strip(Head(xs)) # <<>>
         THEN <<Strip(Head(xs))>> \o StripNonEmpty(Tail(xs))
         ELSE StripNonEmpty(Tail(xs))

\* [a.strip() for a in v.replace(";", ",").split(",") if a.strip()]
SplitAddrs(v) == StripNonEmpty(Split(Replace(v, ";", ","), ","))

\* row.get(k) or "": a missing column and an empty one are both falsy
Get(row, k) == IF k \in DOMAIN row THEN row[k] ELSE <<>>

\* The test msg[name] = value applies to the value.
HeaderValueOk(value) == \A n \in 1..Len(value) : value[n] \notin LineBreaks

\* A test that only rejects the empty address.
NonEmpty(addr) == addr # <<>>

\* the dispatcher's well-formedness test: `not to_addr or "@" not in to_addr`
WellFormed(addr) == addr # <<>> /\ Contains(addr, "@")

\* ------------------------------------------------------------- the inputs
\* Raw values of the email column of contacts.csv: blank, no "@", and two
\* well-formed ones, one of them with surrounding whitespace.
Emails ==
    { <<" ">>, <<"a">>, <<" ", "a", "@">>, <<"b", "@">> }

\* Raw value of the email column of the ledger rows found when the batch
\* starts: written by an earlier run or by another writer, which need not
\* have trimmed it. (Rows for other emails are appended by the runs.)
LedgerEmails == { <<"a", "@", " ">> }

Statuses == {"success", "failed"}

\* subject.txt of the language directory: text with one placeholder.
SubjectTemplate == <<"H", "i", " ", "$email", "\n">>

\* DEFAULTS (from_name, from_email, reply_to)
DEFAULTS ==
    [from_name |-> <<"B">>, from_email |-> <<"s", "@">>, reply_to |-> <<"s", "@">>]

\* All sequences over S of length at most n.
SeqUpTo(S, n) == UNION {[1..m -> S] : m \in 0..n}

\* ------------------------------------------------------------- the ledger
\* The header row csv.DictWriter.writeheader() writes (the columns kept here).
Header ==
    [email |-> <<"e", "m", "a", "i", "l">>, status |-> "status",
     subject |-> <<"s", "u", "b", "j", "e", "c", "t">>, error |-> "error"]

\* SENT_CSV when os.path.isfile(SENT_CSV) is false
NoFile == [exists |-> FALSE, lines |-> <<>>]

\* The rows csv.DictReader yields: every line after the first (the header).
Events(file) ==
    IF file.exists /\ file.lines # <<>> THEN Tail(file.lines) ELSE <<>>

EmptyIndex == [x \in {} |-> Header]

\* idx[key] = rec
Put(idx, key, rec) ==
    [x \in DOMAIN idx \cup {key} |-> IF x = key THEN rec ELSE idx[x]]

\* the fold of read_sent_index over the rows, in file order
RECURSIVE IndexOf(_)
IndexOf(evs) ==
    IF evs = <<>> THEN EmptyIndex
    ELSE LET last == evs[Len(evs)]
         IN  Put(IndexOf(SubSeq(evs, 1, Len(evs) - 1)), Strip(last.email), last)

\* A replay in which the first row of an email wins.
RECURSIVE IndexFirstWins(_)
IndexFirstWins(evs) ==
    IF evs = <<>> THEN EmptyIndex
    ELSE LET last == evs[Len(evs)]
             idx == IndexFirstWins(SubSeq(evs, 1, Len(evs) - 1))
         IN  IF Strip(last.email) \in DOMAIN idx THEN idx
             ELSE Put(idx, Strip(last.email), last)

ReadFirstWins(file) == IndexFirstWins(Events(file))

\* read_sent_index()
read_sent_index(file) == IndexOf(Events(file))

\* A snapshot that counts every recorded attempt as a delivery.
AnyStatus(sent_idx) == DOMAIN sent_idx

\* A snapshot that knows of no delivery.
NothingSent(sent_idx) == {}

\* {e for e, rec in sent_idx.items() if rec.get("status") == "success"}
AlreadySent(sent_idx) == {e \in DOMAIN sent_idx : sent_idx[e].status = "success"}

\* An append that puts the new event before the events already in the file.
AppendAtFront(file, row, subj, status, err) ==
    [exists |-> TRUE,
     lines |-> <<Header>>
               \o <<[email |-> Strip(Get(row, "email")), status |-> status,
                     subject |-> subj, error |-> err]>>
               \o Events(file)]

\* An append that writes the header every time.
AppendWithHeader(file, row, subj, status, err) ==
    [exists |-> TRUE,
     lines |-> file.lines
               \o <<Header>>
               \o <<[email |-> Strip(Get(row, "email")), status |-> status,
                     subject |-> subj, error |-> err]>>]

\* An append that records every attempt as a success.
AppendAlwaysSuccess(file, row, subj, status, err) ==
    [exists |-> TRUE,
     lines |-> (IF file.exists THEN file.lines ELSE <<Header>>)
               \o <<[email |-> Strip(Get(row, "email")), status |-> "success",
                     subject |-> subj, error |-> err]>>]

\* append_sent_record(row, subject, status, error)
append_sent_record(file, row, subj, status, err) ==
    [exists |-> TRUE,
     lines |-> (IF file.exists THEN file.lines ELSE <<Header>>)
               \o <<[email |-> Strip(Get(row, "email")), status |-> status,
                     subject |-> subj, error |-> err]>>]

\* ----------------------------------------------------------- the composer
\* The key a placeholder token names ("" for ordinary characters).
PlaceholderKey(c) ==
    CASE c = "$email" -> "email"
      [] c = "$name" -> "name"
      [] c = "$bcc" -> "bcc"
      [] OTHER -> ""

\* Template(text).safe_substitute(mapping): unresolved placeholders stay.
RECURSIVE render(_, _)
render(text, mapping) ==
    IF text = <<>> THEN <<>>
    ELSE LET c == Head(text)
             key == PlaceholderKey(c)
         IN  (IF key # "" /\ key \in DOMAIN mapping THEN mapping[key] ELSE <<c>>)
             \o render(Tail(text), mapping)

\* {**DEFAULTS, **{k: (v or "") for k, v in row.items()}}
Mapping(row) ==
    [x \in DOMAIN DEFAULTS \cup DOMAIN row |->
        IF x \in DOMAIN row THEN row[x] ELSE DEFAULTS[x]]

\* msg[name] = value
SetHeader(headers, name, value) ==
    [x \in DOMAIN headers \cup {name} |-> IF x = name THEN value ELSE headers[x]]

\* del msg[name]
DelHeader(headers, name) == [x \in DOMAIN headers \ {name} |-> headers[x]]

\* The headers build_message sets before the recipient list is assembled.
Headers(row, subj, to_addr) ==
    LET h1 == [Subject |-> subj, From |-> <<"B", " ", "<", "s", "@", ">">>,
               To |-> to_addr]
        h2 == IF Get(row, "cc") # <<>> THEN SetHeader(h1, "Cc", row.cc) ELSE h1
        h3 == IF Get(row, "bcc") # <<>> THEN SetHeader(h2, "Bcc", row.bcc) ELSE h2
    IN  IF DEFAULTS.reply_to # <<>>
        THEN SetHeader(h3, "Reply-To", DEFAULTS.reply_to)
        ELSE h3

\* A composer that leaves the Bcc header in place.
KeepBcc(headers, row) == headers

\* `if row.get("bcc"): ... del msg["Bcc"]`
DropBcc(headers, row) ==
    IF Get(row, "bcc") # <<>> THEN DelHeader(headers, "Bcc") ELSE headers

\* A recipient list that forgets the blind copies.
RecipientsNoBcc(row, to_addr) ==
    <<to_addr>> \o (IF Get(row, "cc") # <<>> THEN SplitAddrs(row.cc) ELSE <<>>)

\* recipients = [to_addr] + cc addresses + bcc addresses
Recipients(row, to_addr) ==
    <<to_addr>>
    \o (IF Get(row, "cc") # <<>> THEN SplitAddrs(row.cc) ELSE <<>>)
    \o (IF Get(row, "bcc") # <<>> THEN SplitAddrs(row.bcc) ELSE <<>>)

NoHeaders == [x \in {} |-> <<>>]

Raised(text) ==
    [ok |-> FALSE, error |-> text, subject |-> <<>>, headers |-> NoHeaders,
     recipients |-> <<>>]

\* subject = render(subject_tpl, mapping).strip().replace("\n", " ")
RenderSubject(text, mapping) == Replace(Strip(render(text, mapping)), "\n", " ")

\* build_message(row); tpl is what load_templates finds on disk for the row:
\* tpl.ok is false when the subject or body template is missing.
build_message(row, tpl) ==
    LET to_addr == Strip(Get(row, "email"))
    IN  IF ~WellFormed(to_addr) THEN Raised("Invalid recipient")
        ELSE IF ~tpl.ok THEN Raised("Missing template")
        ELSE LET subj == RenderSubject(tpl.subject, Mapping(row))
             IN  IF ~HeaderValueOk(subj) THEN Raised("Header values may not contain linefeed")
                 ELSE [ok |-> TRUE, error |-> "", subject |-> subj,
                       headers |-> DropBcc(Headers(row, subj, to_addr), row),
                       recipients |-> Recipients(row, to_addr)]

\* -------------------------------------------------------- the attachments
\* fnmatch of a name against a pattern whose only wildcard is "*".
RECURSIVE Matches(_, _)
Matches(pat, name) ==
    IF pat = <<>> THEN name = <<>>
    ELSE IF Head(pat) = "*"
         THEN Matches(Tail(pat), name)
              \/ (name # <<>> /\ Matches(pat, Tail(name)))
         ELSE name # <<>> /\ Head(name) = Head(pat)
              /\ Matches(Tail(pat), Tail(name))

\* The order of sorted() on paths: by the characters, left to right.
Ord(c) == CASE c = "f" -> 1 [] c = "g" -> 2 [] OTHER -> 0

RECURSIVE Less(_, _)
Less(a, b) ==
    IF b = <<>> THEN FALSE
    ELSE IF a = <<>> THEN TRUE
    ELSE IF Head(a) # Head(b) THEN Ord(Head(a)) < Ord(Head(b))
    ELSE Less(Tail(a), Tail(b))

\* sorted(S)
RECURSIVE Sorted(_)
Sorted(S) ==
    IF S = {} THEN <<>>
    ELSE LET least == CHOOSE x \in S : \A y \in S \ {x} : Less(x, y)
         IN  <<least>> \o Sorted(S \ {least})

\* No directory entries at all.
NoDisk == [x \in {} |-> "file"]

\* sorted(glob.glob(pat)): the entries of the working directory pat matches
Glob(pat, entries) == Sorted({p \in DOMAIN entries : Matches(pat, p)})

\* [m for m in matches if os.path.isfile(m)]
RECURSIVE OnlyFiles(_, _)
OnlyFiles(matches, entries) ==
    IF matches = <<>> THEN <<>>
    ELSE (IF entries[Head(matches)] = "file" THEN <<Head(matches)>> ELSE <<>>)
         \o OnlyFiles(Tail(matches), entries)

\* the loop over parts: files.extend(...) for every pattern with matches
RECURSIVE Collect(_, _)
Collect(parts, entries) ==
    IF parts = <<>> THEN <<>>
    ELSE OnlyFiles(Glob(Head(parts), entries), entries)
         \o Collect(Tail(parts), entries)

\* A deduplication that keeps everything.
KeepAll(found, seen) == found

\* the loop over files: uniq.append(f) unless f is in seen
RECURSIVE Uniq(_, _)
Uniq(found, seen) ==
    IF found = <<>> THEN <<>>
    ELSE IF Head(found) \in seen THEN Uniq(Tail(found), seen)
    ELSE <<Head(found)>> \o Uniq(Tail(found), seen \cup {Head(found)})

\* expand_attachments(value), with the directory entries it finds
expand_attachments(value, entries) ==
    IF value = <<>> THEN <<>>
    ELSE Uniq(Collect(SplitAddrs(value), entries), {})

\* ------------------------------------------------------------- the report
\* generate_dashboard(rows, sent_idx): the counters of the summary line
generate_dashboard(contacts_rows, sent_idx) ==
    [total |-> Len(contacts_rows),
     sent_count |->
        Cardinality({n \in 1..Len(contacts_rows) :
            LET e == Strip(Get(contacts_rows[n], "email"))
            IN  e \in DOMAIN sent_idx /\ sent_idx[e].status = "success"})]

\* --------------------------------------------------------------- the state
VARIABLES
    rows,          \* read_contacts(): the rows of contacts.csv, in file order
    sent_csv,      \* the ledger file SENT_CSV
    dry_run,       \* --dry-run
    resend,        \* --resend
    limit,         \* --limit: <<>> for None, <<n>> for the integer n
    subject_tpl,   \* the text of subject.txt in the language directory
    disk,          \* the working directory: path -> "file" or "dir"
    files,         \* what expand_attachments returned
    triggers,      \* invocations of send_batch still to come (this one included)
    pc,            \* position in send_batch
    missing,       \* send_batch's `missing` is non-empty
    k,             \* index of the row the loop is at (1-based)
    sent,          \* send_batch's `sent`
    already_sent,  \* send_batch's `already_sent`
    subject,       \* send_batch's `subject`
    msg,           \* the composed message and its recipient list
    error,         \* str(e) of the exception being handled
    i,             \* the dry run's preview counter `i`
    previews,      \* the preview files a dry run wrote
    dashboard,     \* the dashboard file: <<>> until written
    run,           \* history: number of this invocation
    file0,         \* history: the ledger file when this invocation began
    written,       \* history: row index of each event this invocation appended
    calls,         \* history: transport calls per row in this invocation
    accepts,       \* history: messages the transport accepted, per row
    slept,         \* history: backpressure delays observed, per row
    st,            \* history: state of each row in this invocation
    prev           \* history: summary of the previous invocation, <<>> if none

vars ==
    <<rows, sent_csv, dry_run, resend, limit, subject_tpl, disk, files,
      triggers, pc, missing, k, sent, already_sent, subject, msg, error, i, previews, dashboard, run, file0,
      written, calls, accepts, slept, st, prev>>

params == <<rows, dry_run, resend, limit, subject_tpl, disk, files>>
history == <<run, file0, written, calls, accepts, slept, st, prev>>

Rows == {[email |-> e] : e \in Emails}
LedgerEvents ==
    {[email |-> e, status |-> s, subject |-> <<"H", "i">>, error |-> ""] :
        e \in LedgerEmails, s \in Statuses}
Ledgers ==
    {NoFile} \cup
    {[exists |-> TRUE, lines |-> <<Header>> \o evs] :
        evs \in SeqUpTo(LedgerEvents, MaxLedger)}
Limits == {<<>>} \cup {<<n>> : n \in 0..MaxLimit}

RowIdx == 1..Len(rows)

\* send_batch's locals and the per-invocation history before anything ran
Locals ==
    /\ missing = FALSE
    /\ k = 1
    /\ sent = 0
    /\ already_sent = {}
    /\ subject = <<>>
    /\ msg = Raised("")
    /\ error = ""
    /\ i = 0
    /\ written = <<>>
    /\ calls = [n \in RowIdx |-> 0]
    /\ accepts = [n \in RowIdx |-> 0]
    /\ slept = [n \in RowIdx |-> 0]
    /\ st = [n \in RowIdx |-> "Pending"]

\* the state send_batch has when it is entered
Fresh == pc = "idle" /\ Locals

\* One invocation (--send-now or --send-at), any arguments, any ledger.
Init ==
    /\ rows \in SeqUpTo(Rows, MaxRows) \ {<<>>}
    /\ sent_csv \in Ledgers
    /\ dry_run \in BOOLEAN
    /\ resend \in BOOLEAN
    /\ limit \in Limits
    /\ subject_tpl = SubjectTemplate
    /\ disk = NoDisk
    /\ files = <<>>
    /\ triggers = 1
    /\ previews = <<>>
    /\ dashboard = <<>>
    /\ run = 1
    /\ file0 = sent_csv
    /\ prev = <<>>
    /\ Fresh

\* ------------------------------------------------------------ send_batch
\* A credential check that never raises.
NeverAborts(present) == FALSE

\* `if missing and not dry_run: raise RuntimeError(...)`
MustAbort(present) == ~present /\ ~dry_run

\* A dispatcher that takes the sending branch even for a dry run.
BranchAlwaysReal == "connect"

\* `if dry_run: ... return`, else the SMTP session
Branch == IF dry_run THEN "dry_loop" ELSE "connect"

\* Entry of send_batch: the credential check (present: both SENDER_EMAIL and
\* APP_PASSWORD are set in the environment), read_contacts, read_sent_index.
StartBatch ==
    /\ pc = "idle"
    /\ \E present \in BOOLEAN :
        /\ missing' = ~present
        /\ IF MustAbort(present)
           THEN /\ pc' = "aborted"
                /\ UNCHANGED <<already_sent, file0>>
           ELSE /\ already_sent' = AlreadySent(read_sent_index(sent_csv))
                /\ file0' = sent_csv
                /\ pc' = Branch
    /\ UNCHANGED <<params, sent_csv, triggers, k, sent, subject, msg, error, i,
                   previews, dashboard, run, written, calls, accepts, slept,
                   st, prev>>

\* smtplib.SMTP_SSL(...) and server.login(...): either may raise.
Connect ==
    /\ pc = "connect"
    /\ \E ok \in BOOLEAN : pc' = IF ok THEN "loop" ELSE "aborted"
    /\ UNCHANGED <<params, sent_csv, triggers, missing, k, sent, already_sent,
                   subject, msg, error, i, previews, dashboard, history>>

\* A skip test that reads the ledger as it is now.
SkipsLive(to_addr) ==
    ~resend /\ to_addr \in AlreadySent(read_sent_index(sent_csv))

\* A skip test that ignores --resend.
SkipsIgnoringResend(to_addr) == to_addr \in already_sent

\* `not resend and to_addr in already_sent`
Skips(to_addr) == ~resend /\ to_addr \in already_sent

\* Head of the loop body: the validity test and the skip test of one row.
LoopStep ==
    /\ pc = "loop"
    /\ k <= Len(rows)
    /\ LET to_addr == Strip(Get(rows[k], "email"))
       IN  IF ~WellFormed(to_addr)
           THEN /\ st' = [st EXCEPT ![k] = "Invalid"]
                /\ k' = k + 1
                /\ UNCHANGED <<pc, subject>>
           ELSE IF Skips(to_addr)
           THEN /\ st' = [st EXCEPT ![k] = "Skipped"]
                /\ k' = k + 1
                /\ UNCHANGED <<pc, subject>>
           ELSE /\ st' = [st EXCEPT ![k] = "Sending"]
                /\ subject' = <<>>
                /\ pc' = "build"
                /\ UNCHANGED k
    /\ UNCHANGED <<params, sent_csv, triggers, missing, sent, already_sent, msg,
                   error, i, previews, dashboard, run, file0, written, calls,
                   accepts, slept, prev>>

\* msg, subject, recipients = build_message(row)
Build ==
    /\ pc = "build"
    /\ \E found \in BOOLEAN :
        LET r == build_message(rows[k], [ok |-> found, subject |-> subject_tpl])
        IN  IF r.ok
            THEN /\ msg' = r
                 /\ subject' = r.subject
                 /\ pc' = "send"
                 /\ UNCHANGED <<error, st>>
            ELSE /\ error' = r.error
                 /\ st' = [st EXCEPT ![k] = "Failed"]
                 /\ pc' = "failed"
                 /\ UNCHANGED <<msg, subject>>
    /\ UNCHANGED <<params, sent_csv, triggers, missing, k, sent, already_sent, i,
                   previews, dashboard, run, file0, written, calls, accepts,
                   slept, prev>>

\* server.send_message(...): the transport accepts or raises; sent += 1
Send ==
    /\ pc = "send"
    /\ calls' = [calls EXCEPT ![k] = @ + 1]
    /\ \E accepted \in BOOLEAN :
        IF accepted
        THEN /\ accepts' = [accepts EXCEPT ![k] = @ + 1]
             /\ sent' = sent + 1
             /\ st' = [st EXCEPT ![k] = "Sent"]
             /\ pc' = "record"
             /\ UNCHANGED error
        ELSE /\ error' = "Transport error"
             /\ st' = [st EXCEPT ![k] = "Failed"]
             /\ pc' = "failed"
             /\ UNCHANGED <<accepts, sent>>
    /\ UNCHANGED <<params, sent_csv, triggers, missing, k, already_sent, subject,
                   msg, i, previews, dashboard, run, file0, written, slept,
                   prev>>

\* A loop that goes from the success record straight to the limit test.
NoPause == "limit"

\* What follows the success record: time.sleep(SLEEP_BETWEEN).
AfterSuccess == "sleep"

\* append_sent_record(row, subject, "success")
RecordSuccess ==
    /\ pc = "record"
    /\ sent_csv' = append_sent_record(sent_csv, rows[k], subject, "success", "")
    /\ written' = Append(written, k)
    /\ pc' = AfterSuccess
    /\ UNCHANGED <<params, triggers, missing, k, sent, already_sent, subject, msg,
                   error, i, previews, dashboard, run, file0, calls, accepts,
                   slept, st, prev>>

\* time.sleep(SLEEP_BETWEEN)
Sleep ==
    /\ pc = "sleep"
    /\ slept' = [slept EXCEPT ![k] = @ + 1]
    /\ pc' = "limit"
    /\ UNCHANGED <<params, sent_csv, triggers, missing, k, sent, already_sent,
                   subject, msg, error, i, previews, dashboard, run, file0,
                   written, calls, accepts, st, prev>>

\* A limit test that stops one send late.
LimitReachedStrict == limit # <<>> /\ sent > limit[1]

\* `limit is not None and sent >= limit`
LimitReached == limit # <<>> /\ sent >= limit[1]

\* The limit test after a successful send: break, or go on to the next row.
LimitCheck ==
    /\ pc = "limit"
    /\ IF LimitReached
       THEN pc' = "report" /\ UNCHANGED k
       ELSE pc' = "loop" /\ k' = k + 1
    /\ UNCHANGED <<params, sent_csv, triggers, missing, sent, already_sent,
                   subject, msg, error, i, previews, dashboard, history>>

\* A handler that gives up the rest of the batch.
AbortAfterFailure == Len(rows) + 1

\* The except clause ends the iteration: the for loop takes the next row.
\* A handler that tries the failed row again.
RetrySameRow == k

AfterFailure == k + 1

\* except Exception as e: append_sent_record(row, subject, "failed", str(e))
RecordFailed ==
    /\ pc = "failed"
    /\ sent_csv' = append_sent_record(sent_csv, rows[k], subject, "failed", error)
    /\ written' = Append(written, k)
    /\ k' = AfterFailure
    /\ pc' = "loop"
    /\ UNCHANGED <<params, triggers, missing, sent, already_sent, subject, msg,
                   error, i, previews, dashboard, run, file0, calls, accepts,
                   slept, st, prev>>

\* The for loop is exhausted.
LoopEnd ==
    /\ pc = "loop"
    /\ k > Len(rows)
    /\ pc' = "report"
    /\ UNCHANGED <<params, sent_csv, triggers, missing, k, sent, already_sent,
                   subject, msg, error, i, previews, dashboard, history>>

\* generate_dashboard(rows, read_sent_index()) closing either kind of run
Report ==
    /\ pc = "report"
    /\ dashboard' = <<generate_dashboard(rows, read_sent_index(sent_csv))>>
    /\ pc' = "done"
    /\ UNCHANGED <<params, sent_csv, triggers, missing, k, sent, already_sent,
                   subject, msg, error, i, previews, history>>

\* One iteration of the dry run's loop.
DryStep ==
    /\ pc = "dry_loop"
    /\ k <= Len(rows)
    /\ LET email == Strip(Get(rows[k], "email"))
       IN  IF ~WellFormed(email)
           THEN /\ st' = [st EXCEPT ![k] = "Invalid"]
                /\ UNCHANGED <<i, previews>>
           ELSE IF Skips(email)
           THEN /\ st' = [st EXCEPT ![k] = "Skipped"]
                /\ UNCHANGED <<i, previews>>
           ELSE \E found \in BOOLEAN :
                LET r == build_message(rows[k],
                            [ok |-> found, subject |-> subject_tpl])
                IN  IF r.ok
                    THEN /\ previews' = Append(previews,
                                [row |-> k, prefix |-> i + 1, subject |-> r.subject])
                         /\ i' = i + 1
                         /\ st' = [st EXCEPT ![k] = "Previewed"]
                    ELSE /\ st' = [st EXCEPT ![k] = "PreviewFailed"]
                         /\ UNCHANGED <<i, previews>>
    /\ k' = k + 1
    /\ UNCHANGED <<params, sent_csv, triggers, pc, missing, sent, already_sent,
                   subject, msg, error, dashboard, run, file0, written, calls,
                   accepts, slept, prev>>

\* The dry run's loop is exhausted.
DryEnd ==
    /\ pc = "dry_loop"
    /\ k > Len(rows)
    /\ pc' = "report"
    /\ UNCHANGED <<params, sent_csv, triggers, missing, k, sent, already_sent,
                   subject, msg, error, i, previews, dashboard, history>>

Next ==
    \/ StartBatch
    \/ Connect
    \/ LoopStep
    \/ Build
    \/ Send
    \/ RecordSuccess
    \/ Sleep
    \/ LimitCheck
    \/ RecordFailed
    \/ LoopEnd
    \/ Report
    \/ DryStep
    \/ DryEnd

Spec == Init /\ [][Next]_vars

\* ------------------------------------------------- repeated invocations
\* send_batch is entered again: its locals are fresh, the ledger, the
\* previews and the dashboard are what the earlier invocation left.
Enter(dry) ==
    /\ dry_run' = dry
    /\ file0' = sent_csv
    /\ pc' = "idle"
    /\ missing' = FALSE
    /\ k' = 1
    /\ sent' = 0
    /\ already_sent' = {}
    /\ subject' = <<>>
    /\ msg' = Raised("")
    /\ error' = ""
    /\ i' = 0
    /\ written' = <<>>
    /\ calls' = [n \in RowIdx |-> 0]
    /\ accepts' = [n \in RowIdx |-> 0]
    /\ slept' = [n \in RowIdx |-> 0]
    /\ st' = [n \in RowIdx |-> "Pending"]
    /\ UNCHANGED <<rows, resend, limit, subject_tpl, disk, files, sent_csv,
                   previews, dashboard>>

\* The scheduler (--daily, --cron) or the operator calls send_batch again;
\* the history of the finished invocation is kept in prev.
Restart(dry) ==
    /\ triggers > 1
    /\ triggers' = triggers - 1
    /\ run' = run + 1
    /\ prev' = <<[completed |-> pc = "done", file0 |-> file0,
                  accepts |-> accepts, calls |-> calls, st |-> st]>>
    /\ Enter(dry)

\* The next invocation with the same arguments.
Rerun ==
    /\ pc \in {"done", "aborted", "stopped"}
    /\ Restart(dry_run)

\* Rows of well-formed emails: a list may name an address once or twice.
RunRows == {[email |-> e] : e \in {<<"a", "@">>, <<"b", "@">>}}

\* Real runs without --resend, MaxRuns of them, on a ledger of at most one row.
InitRuns ==
    /\ rows \in SeqUpTo(RunRows, MaxRows) \ {<<>>}
    /\ sent_csv \in {NoFile} \cup
            {[exists |-> TRUE, lines |-> <<Header, e>>] : e \in LedgerEvents}
    /\ dry_run = FALSE
    /\ resend = FALSE
    /\ limit \in {<<>>, <<1>>}
    /\ subject_tpl = SubjectTemplate
    /\ disk = NoDisk
    /\ files = <<>>
    /\ triggers = MaxRuns
    /\ previews = <<>>
    /\ dashboard = <<>>
    /\ run = 1
    /\ file0 = sent_csv
    /\ prev = <<>>
    /\ Fresh

NextRuns ==
    \/ StartBatch
    \/ Connect
    \/ LoopStep
    \/ Build
    \/ Send
    \/ RecordSuccess
    \/ Sleep
    \/ LimitCheck
    \/ RecordFailed
    \/ LoopEnd
    \/ Report
    \/ Rerun

SpecRuns == InitRuns /\ [][NextRuns]_vars

\* ------------------------------------------------------------ one real run
\* One real run, with or without --resend, any limit, on a ledger of at most
\* one row.
InitReal ==
    /\ rows \in SeqUpTo(Rows, MaxRows) \ {<<>>}
    /\ sent_csv \in {NoFile} \cup
            {[exists |-> TRUE, lines |-> <<Header, e>>] : e \in LedgerEvents}
    /\ dry_run = FALSE
    /\ resend \in BOOLEAN
    /\ limit \in Limits
    /\ subject_tpl = SubjectTemplate
    /\ disk = NoDisk
    /\ files = <<>>
    /\ triggers = 1
    /\ previews = <<>>
    /\ dashboard = <<>>
    /\ run = 1
    /\ file0 = sent_csv
    /\ prev = <<>>
    /\ Fresh

NextReal ==
    \/ StartBatch
    \/ Connect
    \/ LoopStep
    \/ Build
    \/ Send
    \/ RecordSuccess
    \/ Sleep
    \/ LimitCheck
    \/ RecordFailed
    \/ LoopEnd
    \/ Report

SpecReal == InitReal /\ [][NextReal]_vars

\* ------------------------------------------- a dry run, then the real run
\* The program is started again without --dry-run, with the arguments, the
\* contacts and the ledger the finished dry run had.
RerunReal ==
    /\ dry_run
    /\ pc = "done"
    /\ Restart(FALSE)

\* A dry run with any arguments on a ledger of at most one row, to be
\* followed by the real run.
InitPair ==
    /\ rows \in SeqUpTo(Rows, MaxRows) \ {<<>>}
    /\ sent_csv \in {NoFile} \cup
            {[exists |-> TRUE, lines |-> <<Header, e>>] : e \in LedgerEvents}
    /\ dry_run = TRUE
    /\ resend \in BOOLEAN
    /\ limit \in Limits
    /\ subject_tpl = SubjectTemplate
    /\ disk = NoDisk
    /\ files = <<>>
    /\ triggers = 2
    /\ previews = <<>>
    /\ dashboard = <<>>
    /\ run = 1
    /\ file0 = sent_csv
    /\ prev = <<>>
    /\ Fresh

NextPair ==
    \/ NextReal
    \/ DryStep
    \/ DryEnd
    \/ RerunReal

SpecPair == InitPair /\ [][NextPair]_vars

\* ------------------------------------- real runs, dry runs and reports
\* The program is started again, with or without --dry-run.
RerunAny ==
    /\ pc \in {"done", "aborted"}
    /\ \E dry \in BOOLEAN : Restart(dry)

\* --report, between two invocations of send_batch:
\* generate_dashboard(read_contacts(), read_sent_index())
ReportOnly ==
    /\ pc \in {"idle", "done", "aborted"}
    /\ dashboard' = <<generate_dashboard(rows, read_sent_index(sent_csv))>>
    /\ UNCHANGED <<params, sent_csv, triggers, pc, missing, k, sent,
                   already_sent, subject, msg, error, i, previews, history>>

\* Two invocations, each a real run or a dry run, with or without --resend,
\* on a ledger of at most one row, and reports in between.
InitOps ==
    /\ rows \in SeqUpTo(RunRows, MaxRows) \ {<<>>}
    /\ sent_csv \in {NoFile} \cup
            {[exists |-> TRUE, lines |-> <<Header, e>>] : e \in LedgerEvents}
    /\ dry_run \in BOOLEAN
    /\ resend \in BOOLEAN
    /\ limit = <<>>
    /\ subject_tpl = SubjectTemplate
    /\ disk = NoDisk
    /\ files = <<>>
    /\ triggers = 2
    /\ previews = <<>>
    /\ dashboard = <<>>
    /\ run = 1
    /\ file0 = sent_csv
    /\ prev = <<>>
    /\ Fresh

NextOps ==
    \/ NextReal
    \/ DryStep
    \/ DryEnd
    \/ RerunAny
    \/ ReportOnly

SpecOps == InitOps /\ [][NextOps]_vars

\* ------------------------------------------------- runs without an end
\* --daily and --cron: the trigger fires again after every run, with the
\* same arguments.
RunAgain ==
    /\ pc \in {"done", "aborted"}
    /\ Enter(dry_run)
    /\ UNCHANGED <<triggers, run, prev>>

\* Lists of rows with pairwise distinct emails (after trimming).
DistinctLists ==
    {l \in SeqUpTo(Rows, MaxRows) \ {<<>>} :
        \A n, m \in 1..Len(l) :
            n # m => Strip(l[n].email) # Strip(l[m].email)}

\* Real runs without --resend and without limit, on a ledger of at most one
\* row.
InitForever ==
    /\ rows \in DistinctLists
    /\ sent_csv \in {NoFile} \cup
            {[exists |-> TRUE, lines |-> <<Header, e>>] : e \in LedgerEvents}
    /\ dry_run = FALSE
    /\ resend = FALSE
    /\ limit = <<>>
    /\ subject_tpl = SubjectTemplate
    /\ disk = NoDisk
    /\ files = <<>>
    /\ triggers = 1
    /\ previews = <<>>
    /\ dashboard = <<>>
    /\ run = 1
    /\ file0 = sent_csv
    /\ prev = <<>>
    /\ Fresh

\* Composition and transport fail only while the ledger holds fewer than
\* MaxEvents events: from then on they succeed.
MayFail == Len(Events(sent_csv)) < MaxEvents

\* The credentials are present.
StartWithCredentials == StartBatch /\ pc' = "connect"

\* The connection is made and the login accepted.
ConnectDone == Connect /\ pc' = "loop"

BuildWhileMayFail == Build /\ (pc' = "failed" => MayFail)

SendWhileMayFail == Send /\ (pc' = "failed" => MayFail)

NextForever ==
    \/ StartWithCredentials
    \/ ConnectDone
    \/ LoopStep
    \/ BuildWhileMayFail
    \/ SendWhileMayFail
    \/ RecordSuccess
    \/ Sleep
    \/ LimitCheck
    \/ RecordFailed
    \/ LoopEnd
    \/ Report
    \/ RunAgain

\* The program keeps running and the trigger keeps firing: a step of
\* send_batch or a new invocation that can be taken is taken.
SpecForever ==
    InitForever /\ [][NextForever]_vars /\ WF_vars(NextReal \/ RunAgain)

\* ----------------------------------------------------------- stopped runs
\* KeyboardInterrupt or SystemExit (or the process being killed) while
\* send_batch runs: neither is an Exception, so the handler of the loop does
\* not catch it and the run ends where it is, without a report.
Stop ==
    /\ pc \in {"connect", "loop", "build", "send", "record", "sleep", "limit",
                "failed", "report"}
    /\ pc' = "stopped"
    /\ UNCHANGED <<params, sent_csv, triggers, missing, k, sent, already_sent,
                   subject, msg, error, i, previews, dashboard, history>>

NextStop == NextRuns \/ Stop

\* Real runs without --resend that may be stopped at any step.
SpecStop == InitRuns /\ [][NextStop]_vars

\* ---------------------------------------------------- the composer alone
\* Characters of the cc and bcc columns: two addresses, the two separators
\* and a blank.
FieldChars == {"c", "d", ",", ";", " "}

\* A single row with cc and bcc columns, ready to be composed.
InitCompose ==
    /\ \E e \in {<<"a", "@">>, <<"a">>, <<"c">>}, c, b \in SeqUpTo(FieldChars, MaxField) :
          rows = <<[email |-> e, cc |-> c, bcc |-> b]>>
    /\ sent_csv = NoFile
    /\ dry_run = FALSE
    /\ resend = FALSE
    /\ limit = <<>>
    /\ subject_tpl = SubjectTemplate
    /\ disk = NoDisk
    /\ files = <<>>
    /\ triggers = 1
    /\ previews = <<>>
    /\ dashboard = <<>>
    /\ run = 1
    /\ file0 = sent_csv
    /\ prev = <<>>
    /\ pc = "compose"
    /\ Locals

\* build_message(row) on that row
ComposeOnly ==
    /\ pc = "compose"
    /\ \E found \in BOOLEAN :
          msg' = build_message(rows[1], [ok |-> found, subject |-> subject_tpl])
    /\ pc' = "composed"
    /\ UNCHANGED <<params, sent_csv, triggers, missing, k, sent, already_sent,
                   subject, error, i, previews, dashboard, history>>

NextCompose == ComposeOnly

SpecCompose == InitCompose /\ [][NextCompose]_vars

\* --------------------------------------------------- the subject line alone
\* Characters of subject.txt (read in text mode, so a line ends in "\n") and
\* of the name column (csv keeps a quoted "\r\n" as it is).
TemplateChars == {"x", " ", "\n", "$name"}
ValueChars == {"y", " ", "\n", "\r"}

\* A single well-formed row with a name column, and any subject.txt.
InitSubject ==
    /\ \E v \in SeqUpTo(ValueChars, MaxField) :
          rows = <<[email |-> <<"a", "@">>, name |-> v]>>
    /\ sent_csv = NoFile
    /\ dry_run = FALSE
    /\ resend = FALSE
    /\ limit = <<>>
    /\ subject_tpl \in SeqUpTo(TemplateChars, MaxField)
    /\ disk = NoDisk
    /\ files = <<>>
    /\ triggers = 1
    /\ previews = <<>>
    /\ dashboard = <<>>
    /\ run = 1
    /\ file0 = sent_csv
    /\ prev = <<>>
    /\ pc = "compose"
    /\ Locals

NextSubject == ComposeOnly

SpecSubject == InitSubject /\ [][NextSubject]_vars

\* ------------------------------------------------- the attachments alone
\* Characters of the attachments column: two names, the wildcard, a
\* separator and a blank.
PatternChars == {"f", "g", "*", ",", " "}

\* The paths the working directory may hold, each as a file or a directory.
Paths == {<<"f">>, <<"g">>}
Disks == UNION {[S -> {"file", "dir"}] : S \in SUBSET Paths}

\* A single row with an attachments column, and any working directory.
InitAttach ==
    /\ \E v \in SeqUpTo(PatternChars, MaxPattern) :
          rows = <<[email |-> <<"a", "@">>, attachments |-> v]>>
    /\ sent_csv = NoFile
    /\ dry_run = FALSE
    /\ resend = FALSE
    /\ limit = <<>>
    /\ subject_tpl = SubjectTemplate
    /\ disk \in Disks
    /\ files = <<>>
    /\ triggers = 1
    /\ previews = <<>>
    /\ dashboard = <<>>
    /\ run = 1
    /\ file0 = sent_csv
    /\ prev = <<>>
    /\ pc = "expand"
    /\ Locals

\* files = expand_attachments(row.get("attachments", ""))
ExpandOnly ==
    /\ pc = "expand"
    /\ files' = expand_attachments(Get(rows[1], "attachments"), disk)
    /\ pc' = "expanded"
    /\ UNCHANGED <<rows, dry_run, resend, limit, subject_tpl, disk, sent_csv,
                   triggers, missing, k, sent, already_sent, subject, msg,
                   error, i, previews, dashboard, history>>

NextAttach == ExpandOnly

SpecAttach == InitAttach /\ [][NextAttach]_vars

\* ------------------------------------------------------------- properties
\* the ledger events when this invocation began
ledger0 == Events(file0)

\* The events this invocation appended, oldest first.
Appended == SubSeq(Events(sent_csv), Len(ledger0) + 1, Len(Events(sent_csv)))

\* Number of events this invocation appended for row n.
Count(n) == Cardinality({j \in 1..Len(written) : written[j] = n})

\* s without its leading and trailing whitespace.
Trim(s) ==
    LET ns == {m \in 1..Len(s) : s[m] \notin Whitespace}
    IN  IF ns = {} THEN <<>>
        ELSE SubSeq(s, CHOOSE m \in ns : \A q \in ns : m <= q,
                       CHOOSE m \in ns : \A q \in ns : m >= q)

\* The trimmed email of row n.
Addr(n) == Trim(rows[n].email)

\* Row n has a well-formed email: non-blank, and with an "@".
Valid(n) ==
    /\ \E m \in 1..Len(rows[n].email) : rows[n].email[m] \notin Whitespace
    /\ \E m \in 1..Len(rows[n].email) : rows[n].email[m] = "@"

\* The most recent event of evs for email e has status success.
LatestIsSuccess(evs, e) ==
    \E m \in 1..Len(evs) :
        /\ Trim(evs[m].email) = e
        /\ evs[m].status = "success"
        /\ \A q \in (m + 1)..Len(evs) : Trim(evs[q].email) # e

\* The loop is done with row n.
Finished(n) == n < k \/ (n = k /\ pc \in {"sleep", "limit", "report", "done"})

RealRun == ~dry_run /\ pc \notin {"idle", "aborted", "connect"}

\* C1: in a real run a well-formed row is skipped iff resend is false and the
\* latest ledger event for its trimmed email, as of batch start, is a success;
\* a skipped row gets no transport call and no ledger event; every other
\* well-formed row the loop reaches is dispatched (enters Sending) and is
\* recorded once the loop is done with it.
C1_SkipIffLatestSuccess ==
    RealRun =>
        \A n \in RowIdx :
            /\ n < k => st[n] # "Pending"
            /\ (Valid(n) /\ st[n] # "Pending") =>
                /\ st[n] = "Skipped" <=> (~resend /\ LatestIsSuccess(ledger0, Addr(n)))
                /\ st[n] = "Skipped" => (calls[n] = 0 /\ Count(n) = 0)
                /\ st[n] # "Skipped" => st[n] \in {"Sending", "Sent", "Failed"}
                /\ (st[n] # "Skipped" /\ Finished(n)) => Count(n) = 1
            /\ Len(Events(sent_csv)) = Len(ledger0) + Len(written)

C1_Witness ==
    /\ RealRun
    /\ pc = "done"
    /\ \E n, m \in RowIdx :
        /\ st[n] = "Skipped" /\ Valid(n)
        /\ st[m] = "Sent" /\ ~LatestIsSuccess(ledger0, Addr(m))

\* C3: replay is last-write-wins per trimmed email: the index has exactly the
\* trimmed emails of the events as keys and maps each to the last event for
\* it in file order; a row whose email has events [.., success, .., failed]
\* with failed the latest is not skipped by a real run without --resend.
C3_LastWriteWins ==
    LET evs == Events(sent_csv)
        idx == read_sent_index(sent_csv)
    IN  /\ DOMAIN idx = {Trim(evs[m].email) : m \in 1..Len(evs)}
        /\ \A m \in 1..Len(evs) :
              (\A q \in (m + 1)..Len(evs) : Trim(evs[q].email) # Trim(evs[m].email))
                  => idx[Trim(evs[m].email)] = evs[m]
        /\ (RealRun /\ ~resend) =>
              \A n \in RowIdx :
                  (/\ Valid(n)
                   /\ n < k
                   /\ \E m \in 1..Len(ledger0) :
                        /\ Trim(ledger0[m].email) = Addr(n)
                        /\ ledger0[m].status = "failed"
                        /\ \A q \in (m + 1)..Len(ledger0) :
                              Trim(ledger0[q].email) # Addr(n))
                  => (st[n] \in {"Sent", "Failed"} /\ Count(n) = 1)

C3_Witness ==
    /\ RealRun
    /\ ~resend
    /\ Len(ledger0) = 2
    /\ ledger0[1].status = "success"
    /\ ledger0[2].status = "failed"
    /\ read_sent_index(file0)[Trim(ledger0[2].email)].status = "failed"
    /\ \E n \in RowIdx : Addr(n) = Trim(ledger0[2].email) /\ st[n] = "Sent"

\* C5: in a real run exactly one event is appended per dispatch attempt: a
\* row has at most one event, has one exactly when the loop is done with its
\* attempt, the event carries the row's trimmed email and has status success
\* iff the transport accepted the message, and nothing else is appended.
C5_OneEventPerAttempt ==
    RealRun =>
        /\ Len(Appended) = Len(written)
        /\ SubSeq(Events(sent_csv), 1, Len(ledger0)) = ledger0
        /\ \A n \in RowIdx :
            /\ Count(n) <= 1
            /\ calls[n] <= 1
            /\ Count(n) = 1 => st[n] \in {"Sent", "Failed"}
            /\ (Finished(n) /\ st[n] \in {"Sent", "Failed"}) => Count(n) = 1
        /\ \A j \in 1..Len(written) :
            /\ Appended[j].email = Addr(written[j])
            /\ Appended[j].status \in {"success", "failed"}
            /\ Appended[j].status = "success" <=> accepts[written[j]] = 1

C5_Witness ==
    /\ RealRun
    /\ pc = "done"
    /\ Len(written) = 2
    /\ Appended[1].status = "failed"
    /\ Appended[2].status = "success"

\* C6: a recipient whose composition or transport fails gets one event with
\* status failed and the error text, with an empty subject when composition
\* failed and the rendered subject when only the transport failed; the batch
\* is not aborted and the loop goes on to the next row.
C6_ErrorIsolation ==
    RealRun =>
        /\ \A j \in 1..Len(written) :
            LET n == written[j]
            IN  st[n] = "Failed" =>
                  /\ Appended[j].status = "failed"
                  /\ calls[n] = 0 =>
                        /\ Appended[j].subject = <<>>
                        /\ Appended[j].error = "Missing template"
                  /\ calls[n] = 1 =>
                        /\ Appended[j].subject # <<>>
                        /\ Appended[j].subject =
                             build_message(rows[n],
                                 [ok |-> TRUE, subject |-> SubjectTemplate]).subject
                        /\ Appended[j].error = "Transport error"
        /\ \A n \in RowIdx :
            (st[n] = "Failed" /\ Count(n) = 1) =>
                /\ k > n
                /\ (pc = "done" /\ n < Len(rows)) => st[n + 1] # "Pending"

C6_Witness ==
    /\ RealRun
    /\ pc = "done"
    /\ Len(rows) = 2
    /\ st[1] = "Failed" /\ calls[1] = 0
    /\ st[2] = "Failed" /\ calls[2] = 1
    /\ Len(written) = 2

\* C7: a row whose trimmed email is empty or lacks "@" is Invalid in real and
\* dry runs alike: it is not composed, gets no transport call, no preview and
\* no ledger event, and the run goes on to the next row.
C7_InvalidRowUntouched ==
    \A n \in RowIdx :
        (Addr(n) = <<>> \/ ~Contains(Addr(n), "@")) =>
            /\ st[n] \in {"Pending", "Invalid"}
            /\ (n < k /\ pc \notin {"idle", "aborted", "connect"}) => st[n] = "Invalid"
            /\ calls[n] = 0
            /\ Count(n) = 0
            /\ \A j \in 1..Len(previews) : previews[j].row # n
            /\ (pc = "done" /\ n < Len(rows) /\ (dry_run \/ limit = <<>>))
                    => st[n + 1] # "Pending"

C7_Witness ==
    /\ pc = "done"
    /\ Len(rows) = 2
    /\ Addr(1) = <<"a">>
    /\ st[1] = "Invalid"
    /\ st[2] \in {"Sent", "Previewed"}

\* C8: with a credential missing, a real run aborts before any row is
\* processed, leaving the ledger file as it was and making no transport
\* call; a dry run does not abort.
C8_MissingCredentials ==
    missing =>
        IF dry_run
        THEN pc # "aborted"
        ELSE /\ pc = "aborted"
             /\ sent_csv = file0
             /\ written = <<>>
             /\ \A n \in RowIdx : calls[n] = 0 /\ st[n] = "Pending"

C8_Witness ==
    \/ missing /\ ~dry_run /\ pc = "aborted" /\ Len(Events(sent_csv)) = 1
    \/ missing /\ dry_run /\ pc = "done" /\ Len(previews) = 1

\* C9: a dry run never calls the transport and never appends to the ledger:
\* the ledger file stays what it was when the run began, also when a
\* composition fails.
C9_DryRunNoEffect ==
    dry_run =>
        /\ sent_csv = file0
        /\ written = <<>>
        /\ \A n \in RowIdx : calls[n] = 0 /\ accepts[n] = 0
        /\ pc \notin {"connect", "loop", "build", "send", "record", "failed"}

C9_Witness ==
    /\ dry_run
    /\ pc = "done"
    /\ Len(rows) = 2
    /\ st[1] = "PreviewFailed"
    /\ st[2] = "Previewed"
    /\ Len(Events(sent_csv)) = 2

\* C4: with limit n the run appends at most n success events, failed
\* attempts do not count toward the limit, and the rows after the stopping
\* point get no transport call and no ledger event.
C4_AtMostLimitSuccesses ==
    (RealRun /\ limit # <<>>) =>
        /\ Cardinality({j \in 1..Len(Appended) : Appended[j].status = "success"})
              <= limit[1]
        /\ sent = Cardinality({n \in RowIdx : accepts[n] = 1})
        /\ pc \in {"report", "done"} =>
              \A n \in RowIdx :
                  n > k => (st[n] = "Pending" /\ calls[n] = 0 /\ Count(n) = 0)

\* The same statement for the limits of at least 1.
C4_HoldsForPositiveLimit ==
    (limit # <<>> /\ limit[1] = 0) \/ C4_AtMostLimitSuccesses

\* ------------------------------------------------------ two runs in a row
\* Messages the transport accepted for email e in the previous and in this
\* invocation, over the rows 1..n.
RECURSIVE AcceptedFor(_, _)
AcceptedFor(e, n) ==
    IF n = 0 THEN 0
    ELSE AcceptedFor(e, n - 1)
         + (IF Addr(n) = e THEN prev[1].accepts[n] + accepts[n] ELSE 0)

\* Email e has no success event in the ledger the previous invocation found.
UnsentBefore(e) ==
    \A m \in 1..Len(Events(prev[1].file0)) :
        ~(Trim(Events(prev[1].file0)[m].email) = e
          /\ Events(prev[1].file0)[m].status = "success")

DistinctEmails == \A n, m \in RowIdx : n # m => Addr(n) # Addr(m)

TwoRunsDone == prev # <<>> /\ prev[1].completed /\ pc = "done"

\* C2 as stated: after two completed runs without --resend every recipient
\* with no success event before the first has been accepted exactly once.
C2_ExactlyOnceAcrossRuns ==
    TwoRunsDone =>
        \A n \in RowIdx :
            UnsentBefore(Addr(n)) => AcceptedFor(Addr(n), Len(rows)) = 1

\* C2 amended: with pairwise distinct trimmed emails, a recipient with no
\* success event before the first run is accepted at most once over both
\* runs; once accepted it is skipped by the second run; and it is accepted
\* exactly once unless, in each run, its attempt failed or the run ended
\* (limit, abort) before reaching it. Without a limit two completed runs
\* reach every row.
C2_AtMostOnceAcrossRuns ==
    (prev # <<>> /\ DistinctEmails) =>
        \A n \in RowIdx :
            UnsentBefore(Addr(n)) =>
                /\ prev[1].accepts[n] + accepts[n] <= 1
                /\ prev[1].accepts[n] = 1 =>
                      (calls[n] = 0 /\ st[n] \in {"Pending", "Skipped"})
                /\ (prev[1].accepts[n] = 1 /\ n < k /\ RealRun) => st[n] = "Skipped"
                /\ (pc \in {"done", "aborted"} /\ prev[1].accepts[n] + accepts[n] = 0) =>
                      /\ prev[1].st[n] \in {"Failed", "Pending"}
                      /\ st[n] \in {"Failed", "Pending"}
                /\ (TwoRunsDone /\ limit = <<>>) =>
                      (prev[1].st[n] # "Pending" /\ st[n] # "Pending")

C2_Witness ==
    /\ TwoRunsDone
    /\ DistinctEmails
    /\ Len(rows) = 2
    /\ \A n \in RowIdx : UnsentBefore(Addr(n))
    /\ prev[1].st[1] = "Sent" /\ st[1] = "Skipped"
    /\ prev[1].st[2] = "Failed" /\ st[2] = "Sent"

\* ------------------------------------------------------------ the composer
RECURSIVE Scan(_, _, _)
\* The addresses of a comma/semicolon-separated field, read left to right:
\* cur is the address being read, out the addresses read so far.
Scan(v, cur, out) ==
    LET flushed == IF Trim(cur) = <<>> THEN out ELSE Append(out, Trim(cur))
    IN  IF v = <<>> THEN flushed
        ELSE IF Head(v) \in {",", ";"} THEN Scan(Tail(v), <<>>, flushed)
        ELSE Scan(Tail(v), Append(cur, Head(v)), out)

Addresses(v) == Scan(v, <<>>, <<>>)

Range(f) == {f[x] : x \in DOMAIN f}

\* C10: the transport recipient list of a composed message is the primary
\* address, then the non-empty trimmed cc addresses, then the non-empty
\* trimmed bcc addresses; the message has no Bcc header, and a blind-copy
\* address occurs in a header only if it is also the primary or a cc address.
C10_BccOnlyInEnvelope ==
    (pc = "composed" /\ msg.ok) =>
        LET row == rows[1]
            blind == Range(Addresses(row.bcc)) \
                        (Range(Addresses(row.cc)) \cup {Trim(row.email)})
        IN  /\ msg.recipients =
                  <<Trim(row.email)>> \o Addresses(row.cc) \o Addresses(row.bcc)
            /\ "Bcc" \notin DOMAIN msg.headers
            /\ {"Subject", "From", "To"} \subseteq DOMAIN msg.headers
            /\ msg.headers["To"] = Trim(row.email)
            /\ \A h \in DOMAIN msg.headers :
                  Range(Addresses(msg.headers[h])) \cap blind = {}

C10_Witness ==
    /\ pc = "composed"
    /\ msg.ok
    /\ rows[1].cc = <<"c", ";">>
    /\ rows[1].bcc = <<" ", "d">>
    /\ msg.recipients = <<<<"a", "@">>, <<"c">>, <<"d">>>>
    /\ DOMAIN msg.headers = {"Subject", "From", "To", "Cc", "Reply-To"}


\* C11: the rendered subject is a single physical line without leading or
\* trailing whitespace: every line break that came from subject.txt or from a
\* substituted value has been replaced, and whenever the templates are found
\* the message is composed with that subject.
C11_SubjectSingleLine ==
    pc = "composed" =>
        LET s == RenderSubject(subject_tpl, Mapping(rows[1]))
        IN  /\ \A n \in 1..Len(s) : s[n] \notin LineBreaks
            /\ s = Trim(s)
            /\ msg.error # "Missing template" => msg.ok /\ msg.subject = s

\* What does hold: the subject has no "\n" and no surrounding whitespace, and
\* a row whose values carry no "\r" is composed with a single-line subject.
C11_HoldsWithoutCarriageReturn ==
    pc = "composed" =>
        LET s == RenderSubject(subject_tpl, Mapping(rows[1]))
        IN  /\ ~Contains(s, "\n")
            /\ s = Trim(s)
            /\ ~Contains(rows[1].name, "\r") /\ msg.error # "Missing template"
                    => msg.ok /\ msg.subject = s /\ HeaderValueOk(s)


\* The patterns of an attachments field, by the independent reading.
Patterns == Addresses(rows[1].attachments)

\* Pattern number j matches the regular file p.
Hit(j, p) == p \in DOMAIN disk /\ disk[p] = "file" /\ Matches(Patterns[j], p)

\* The number of the first pattern that matches the regular file p.
FirstHit(p) == CHOOSE j \in 1..Len(Patterns) :
                    Hit(j, p) /\ \A q \in 1..(j - 1) : ~Hit(q, p)

\* C12: the resolved attachments are exactly the existing regular files some
\* pattern matches, each once, in the order of the first pattern matching
\* them (files of one pattern in sorted order); patterns that match nothing
\* or only directories add nothing.
C12_AttachmentsInPatternOrder ==
    pc = "expanded" =>
        /\ \A p \in Paths :
              (\E j \in 1..Len(Patterns) : Hit(j, p))
                  <=> (\E n \in 1..Len(files) : files[n] = p)
        /\ \A n, m \in 1..Len(files) : n # m => files[n] # files[m]
        /\ \A n, m \in 1..Len(files) :
              n < m => \/ FirstHit(files[n]) < FirstHit(files[m])
                       \/ /\ FirstHit(files[n]) = FirstHit(files[m])
                          /\ Less(files[n], files[m])

\* A later pattern comes first in the result although it sorts last, and the
\* file it matches is matched again by the wildcard after it.
C12_Witness ==
    /\ pc = "expanded"
    /\ files = << <<"g">>, <<"f">> >>
    /\ \E j \in 1..Len(Patterns) : Hit(j, <<"g">>) /\ j > FirstHit(<<"g">>)


\* Every message the transport accepted in this invocation has its success
\* event among the events the invocation appended.
AcceptedAreRecorded ==
    \A n \in RowIdx :
        accepts[n] = 1 =>
            \E j \in 1..Len(written) :
                written[j] = n /\ Appended[j].status = "success"

\* C13: when a run has been stopped between two steps, every message the
\* transport accepted has its success event in the ledger, and the run after
\* a stopped one makes no transport call for a row the stopped run delivered.
C13_StoppedLedgerConsistent ==
    /\ pc = "stopped" => AcceptedAreRecorded
    /\ (prev # <<>> /\ ~prev[1].completed) =>
            \A n \in RowIdx : prev[1].accepts[n] = 1 => calls[n] = 0

\* What does hold: between two recipients (and once the loop is over) every
\* accepted message is recorded.
C13_ConsistentBetweenRecipients ==
    pc \in {"loop", "report", "done"} => AcceptedAreRecorded


\* The invocation appended a success event for row n.
SuccessAppended(n) ==
    \E j \in 1..Len(written) : written[j] = n /\ Appended[j].status = "success"

\* C14: the backpressure delay is observed once for every successful send,
\* after the success event is appended and before the limit test or the next
\* row, and never for a skipped, invalid or failed row (nor in a dry run).
C14_DelayOnlyAfterSuccess ==
    /\ \A n \in RowIdx :
          /\ slept[n] <= 1
          /\ slept[n] = 1 => st[n] = "Sent" /\ SuccessAppended(n)
          /\ st[n] \in {"Invalid", "Skipped", "Failed"} => slept[n] = 0
          /\ (st[n] = "Sent" /\ SuccessAppended(n) /\ ~(pc = "sleep" /\ k = n))
                => slept[n] = 1
    /\ pc = "sleep" => SuccessAppended(k) /\ slept[k] = 0
    /\ pc = "limit" => slept[k] = 1
    /\ (pc = "loop" /\ k \in RowIdx) => slept[k] = 0

\* A finished run with a sent row that was followed by the delay and a
\* failed row that was not.
C14_Witness ==
    /\ pc = "done"
    /\ \E n, m \in RowIdx :
          /\ st[n] = "Sent" /\ slept[n] = 1
          /\ st[m] = "Failed" /\ slept[m] = 0


\* C15: in a real run the rows are taken in source order, a row's skip check
\* comes before its composition, its composition before its transport call
\* and its transport call before the append of its outcome; the outcome of a
\* row is in the ledger before any later row is composed or sent, so the
\* events the run appends are in the order of their rows.
C15_StrictOrdering ==
    RealRun =>
        /\ \A n \in RowIdx :
              /\ n < k => st[n] \notin {"Pending", "Sending"}
              /\ n < k /\ st[n] \in {"Sent", "Failed"} => Count(n) = 1
              /\ n > k => st[n] = "Pending" /\ calls[n] = 0 /\ Count(n) = 0
              /\ calls[n] + Count(n) > 0 => st[n] \in {"Sent", "Failed"}
              /\ calls[n] <= 1 /\ Count(n) <= 1
              /\ (Count(n) = 1 /\ st[n] = "Sent") => calls[n] = 1
        /\ pc = "build" => st[k] = "Sending" /\ calls[k] = 0 /\ Count(k) = 0
        /\ pc = "send" => msg.ok /\ calls[k] = 0 /\ Count(k) = 0
        /\ pc = "record" => calls[k] = 1 /\ Count(k) = 0
        /\ pc = "failed" => Count(k) = 0
        /\ \A a, b \in 1..Len(written) : a < b => written[a] < written[b]
        /\ Events(sent_csv) = ledger0 \o Appended
        /\ Len(Appended) = Len(written)
        /\ \A j \in 1..Len(written) : Appended[j].email = Addr(written[j])

\* A finished run that appended the outcomes of two different recipients.
C15_Witness ==
    /\ RealRun /\ pc = "done"
    /\ written = <<1, 2>>
    /\ Addr(1) # Addr(2)
    /\ st[1] = "Failed" /\ st[2] = "Sent"
    /\ ledger0 # <<>>


\* The moves of a row allowed by Pending -> {Invalid, Skipped, Sending} ->
\* {Sent, Failed}.
Move(from, to) ==
    \/ from = "Pending" /\ to \in {"Invalid", "Skipped", "Sending"}
    \/ from = "Sending" /\ to \in {"Sent", "Failed"}

\* Steps a real run has left at most: the rows not yet settled, then the
\* position within the row at hand.
PcRank ==
    CASE pc = "loop" -> 7
      [] pc = "build" -> 6
      [] pc = "send" -> 5
      [] pc = "record" -> 4
      [] pc = "sleep" -> 3
      [] pc \in {"limit", "failed"} -> 2
      [] pc = "report" -> 1
      [] OTHER -> 0

Measure ==
    CASE pc = "idle" -> 8 * (Len(rows) + 2) + 1
      [] pc = "connect" -> 8 * (Len(rows) + 2)
      [] pc \in {"loop", "build", "send", "record", "sleep", "limit", "failed"}
            -> 8 * (Len(rows) + 1 - k) + PcRank
      [] OTHER -> PcRank

\* C16: in a real run every row only moves along Pending -> {Invalid,
\* Skipped, Sending} -> {Sent, Failed}, so Invalid, Skipped, Sent and Failed
\* are final and no row is taken twice; every step brings the run closer to
\* its end and the run cannot stop short of it, so a row in Sending ends as
\* Sent or Failed; a run without limit that went through the loop ends with
\* every row Invalid, Skipped, Sent or Failed.
C16_StateMachine ==
    /\ [][~dry_run =>
            /\ \A n \in RowIdx : st'[n] # st[n] => Move(st[n], st'[n])
            /\ Measure' < Measure]_vars
    /\ [](~dry_run =>
            /\ pc \notin {"done", "aborted"} => ENABLED NextReal
            /\ \A n \in RowIdx :
                  st[n] \in {"Pending", "Invalid", "Skipped", "Sending",
                             "Sent", "Failed"}
            /\ pc \in {"report", "done"} =>
                  \A n \in RowIdx : st[n] # "Sending"
            /\ (pc = "done" /\ limit = <<>>) =>
                  \A n \in RowIdx :
                      st[n] \in {"Invalid", "Skipped", "Sent", "Failed"})

\* A finished real run without limit with a row that never was in Sending
\* and a row that was.
C16_Witness ==
    /\ ~dry_run /\ pc = "done" /\ limit = <<>>
    /\ \E n, m \in RowIdx :
          /\ st[n] \in {"Invalid", "Skipped"}
          /\ st[m] \in {"Sent", "Failed"}


\* The real run that followed a dry run has gone through its loop.
PairDone == prev # <<>> /\ ~dry_run /\ pc = "done"

\* Row n is classified alike by the dry run (prev) and the real run.
SameClass(n) ==
    /\ prev[1].st[n] \in {"Previewed", "PreviewFailed"}
            <=> st[n] \in {"Sent", "Failed"}
    /\ prev[1].st[n] = "Skipped" <=> st[n] = "Skipped"
    /\ prev[1].st[n] = "Invalid" <=> st[n] = "Invalid"

\* C17: for the same rows, ledger, resend flag and limit, the dry run takes a
\* row to composition exactly when the real run dispatches it, skips it
\* exactly when the real run skips it and rejects it as invalid exactly when
\* the real run does.
C17_DryRunMatchesRealRun == PairDone => \A n \in RowIdx : SameClass(n)

\* What does hold: the two agree on every row when no limit is given, and
\* with a limit on every row the real run reached.
C17_HoldsUpToTheLimit ==
    PairDone =>
        \A n \in RowIdx : (limit = <<>> \/ st[n] # "Pending") => SameClass(n)


\* The lines of file a are the first lines of file b.
IsPrefix(a, b) == Len(a) <= Len(b) /\ SubSeq(b, 1, Len(a)) = a

\* A ledger file is absent and empty, or starts with its only header line.
HeaderOnce(file) ==
    IF file.exists
    THEN /\ file.lines # <<>>
         /\ file.lines[1] = Header
         /\ \A j \in 2..Len(file.lines) : file.lines[j] # Header
    ELSE file.lines = <<>>

\* C18: every step of a real run, a dry run or a report leaves the lines the
\* ledger had as the first lines of the ledger, and never removes the file;
\* dry runs and reports leave the ledger as it is; a missing ledger is read
\* as the empty index; the append that creates the file writes the header
\* and one event, every other append adds one event and no header.
C18_AppendOnly ==
    [][/\ IsPrefix(sent_csv.lines, sent_csv'.lines)
       /\ sent_csv.exists => sent_csv'.exists
       /\ (dry_run \/ pc = pc') => sent_csv' = sent_csv
       /\ ~sent_csv.exists => read_sent_index(sent_csv) = EmptyIndex
       /\ HeaderOnce(sent_csv) /\ HeaderOnce(sent_csv')
       /\ sent_csv' # sent_csv =>
             /\ Len(sent_csv'.lines) =
                    Len(sent_csv.lines) + (IF sent_csv.exists THEN 1 ELSE 2)
             /\ Events(sent_csv') = Events(sent_csv) \o
                    <<sent_csv'.lines[Len(sent_csv'.lines)]>>]_vars

\* The first run found no ledger and created it, a later real run has
\* appended to it, and a report was generated.
C18_Witness ==
    /\ prev # <<>>
    /\ ~prev[1].file0.exists
    /\ file0.exists
    /\ ~dry_run
    /\ written # <<>>
    /\ dashboard # <<>>


\* The emails whose latest event in the ledger at batch start is a success.
Snapshot ==
    {e \in {Trim(ledger0[j].email) : j \in 1..Len(ledger0)} :
        LatestIsSuccess(ledger0, e)}

\* C19: from the moment the batch has read the ledger, already_sent is the
\* set of emails whose latest event at batch start was a success, whatever
\* the run appends; so in a real run without --resend two rows with the same
\* well-formed email and no prior success are never skipped: each one the
\* loop is done with has its own ledger event and, unless its composition
\* failed, its own transport call.
C19_SnapshotAtBatchStart ==
    /\ pc \notin {"idle", "aborted"} => already_sent = Snapshot
    /\ (RealRun /\ ~resend) =>
          \A n, m \in RowIdx :
              (n < m /\ Addr(n) = Addr(m) /\ Valid(n)
                     /\ ~LatestIsSuccess(ledger0, Addr(n))) =>
                  /\ st[n] # "Skipped" /\ st[m] # "Skipped"
                  /\ Finished(m) =>
                        /\ Count(n) = 1 /\ Count(m) = 1
                        /\ \A x \in {n, m} :
                              \/ calls[x] = 1
                              \/ calls[x] = 0 /\ st[x] = "Failed"
                        /\ (st[n] = "Sent" /\ st[m] = "Sent") =>
                              /\ calls[n] + calls[m] = 2
                              /\ SuccessAppended(n) /\ SuccessAppended(m)

\* A finished real run without --resend that sent to the same email twice:
\* two transport calls, two success events.
C19_Witness ==
    /\ RealRun /\ ~resend /\ pc = "done"
    /\ Len(rows) >= 2
    /\ Addr(1) = Addr(2)
    /\ ~LatestIsSuccess(ledger0, Addr(1))
    /\ calls[1] = 1 /\ calls[2] = 1
    /\ st[1] = "Sent" /\ st[2] = "Sent"
    /\ Len(written) = 2


\* The latest ledger event of every well-formed row is a success.
Converged ==
    \A n \in RowIdx : Valid(n) => LatestIsSuccess(Events(sent_csv), Addr(n))

\* The invocation has made no transport call and appended nothing.
IdleRun == sent_csv = file0 /\ \A n \in RowIdx : calls[n] = 0

\* C20: with distinct emails, repeated real runs without --resend and
\* without limit, and composition and transport failing only finitely often,
\* the runs reach a ledger in which the latest event of every well-formed
\* row is a success, and from some run on no run makes a transport call or
\* appends an event.
C20_Convergence == <>[](Converged /\ IdleRun)

\* A run that found every recipient delivered, one of them after a failed
\* attempt, and did nothing.
C20_Witness ==
    /\ pc = "done"
    /\ Converged /\ IdleRun
    /\ \E n \in RowIdx :
          /\ st[n] = "Skipped"
          /\ \E j \in 1..Len(Events(sent_csv)) :
                /\ Trim(Events(sent_csv)[j].email) = Addr(n)
                /\ Events(sent_csv)[j].status = "failed"

====
